---- MODULE Spec2Model ----
(***************************************************************************)
(* A model of pyscf/pbc/scf/kuhf.py: unrestricted Hartree-Fock with        *)
(* k-point sampling.  Each function of the file is an action that applies  *)
(* the function to inputs chosen in the initial state; every function has  *)
(* its own specification (SpecOcc, SpecEnergy, ...).                       *)
(*                                                                         *)
(* Conventions.  Python sequences are TLA+ sequences, so the code's index  *)
(* i is the model's i+1; spin alpha is 1 and spin beta is 2.  Occupations  *)
(* 1.0 and 0.0 are the integers 1 and 0.  Orbital energies are integers.   *)
(***************************************************************************)
EXTENDS Integers, Sequences, FiniteSets, TLC

VARIABLES
    pc,               \* position of the call under study: "call", then "done"
    mf_nelec,         \* mf.nelec, the pair (n_alpha, n_beta)
    mf_verbose,       \* mf.verbose
    mo_energy_kpts,   \* get_occ's argument: per spin, per k-point, the energies
    occ_ret,          \* get_occ's outcome: status, occupations, log, print options
    dm_kpts,          \* energy_elec's density: per spin, per k-point, a matrix
    h1e_kpts,         \* energy_elec's core Hamiltonian: per k-point, a matrix
    vhf_kpts,         \* energy_elec's effective potential: per spin, per k-point
    energy_ret,       \* energy_elec's outcome: status, total and Coulomb energy
    cell,             \* the cell given to KUHF.__init__: nelectron and spin
    mf_conf,          \* mf.diis_start_cycle, mf.level_shift, mf.damp, and nkpts
    diis_history,     \* the extrapolator's history buffer: the Fock matrices pushed
    ncalls,           \* calls of get_fock made so far
    fock_call,        \* the last call of get_fock: its arguments and its outcome
    scf_rec,          \* the checkpoint record read by init_guess_by_chkfile
    chk_args,         \* init_guess_by_chkfile's arguments kpts and project
    chk_ret,          \* init_guess_by_chkfile's outcome: status and density
    guess_args,       \* get_init_guess: the key, mf.kpts and the state of mf.chkfile
    guess_ret,        \* get_init_guess's outcome: status, density, source, log
    canon_args,       \* canonicalize's arguments mo_coeff_kpts, mo_occ_kpts, fock
    eigh_pick,        \* which of the valid eigenvector sets scipy.linalg.eigh returns
    canon_ret         \* canonicalize's outcome: status, mo_energy, mo_coeff

occVars == <<mf_nelec, mf_verbose, mo_energy_kpts, occ_ret>>
energyVars == <<dm_kpts, h1e_kpts, vhf_kpts, energy_ret>>
fockVars == <<mf_conf, diis_history, ncalls, fock_call>>
chkVars == <<scf_rec, chk_args, chk_ret>>
guessVars == <<guess_args, guess_ret>>
canonVars == <<canon_args, eigh_pick, canon_ret>>
vars == <<pc, occVars, energyVars, cell, fockVars, chkVars, guessVars, canonVars>>

\* ------------------------------------------------------------------ bounds
\* Largest number of k-points of a run.
MaxKpts == 2
\* Orbital energies are drawn from 0..MaxE.
MaxE == 1
\* Electrons per spin and cell are drawn from 0..MaxNelec.
MaxNelec == 3
\* Orbitals per k-point (nmo).
Orbs == {1, 2}

Alpha == 1
Beta == 2
Verbosity == {"INFO", "DEBUG"}

\* ---------------------------------------------- states before any call
NoOcc == [status |-> "pending", mo_occ_kpts |-> <<>>, log |-> <<>>,
          np_threshold |-> 1000]

\* get_occ is not the call under study.
IdleOcc ==
    /\ mf_nelec = <<0, 0>>
    /\ mf_verbose = "INFO"
    /\ mo_energy_kpts = <<>>
    /\ occ_ret = NoOcc

NoEnergy == [status |-> "pending", e_tot |-> <<>>, e_coul |-> <<>>,
             imag |-> 0, denom |-> 1]

\* energy_elec is not the call under study.
IdleEnergy ==
    /\ dm_kpts = <<>>
    /\ h1e_kpts = <<>>
    /\ vhf_kpts = <<>>
    /\ energy_ret = NoEnergy

NoCell == [nelectron |-> 0, spin |-> 0, natm |-> 0, dimension |-> 3]

\* KUHF.__init__ is not the call under study.
IdleCell == cell = NoCell

NoFockCall == [status |-> "pending", f_kpts |-> <<>>, f_preshift |-> <<>>,
               updates |-> 0, cycle |-> -1, diis |-> "None",
               vhf |-> <<>>, dm |-> <<>>]

\* get_fock is not the call under study.
IdleFock ==
    /\ mf_conf = [nkpts |-> 0, diis_start_cycle |-> 0,
                  level_shift |-> [kind |-> "float", v |-> <<0>>], damp |-> 0]
    /\ diis_history = <<>>
    /\ ncalls = 0
    /\ fock_call = NoFockCall

\* The outcome of init_guess_by_chkfile before the call.
NoChkRet == [status |-> "pending", dm |-> <<>>]

\* init_guess_by_chkfile is not the call under study.
IdleChk ==
    /\ scf_rec = [form |-> "kpts", wfn |-> "KUHF", kpts |-> <<>>,
                  mo_coeff |-> <<>>, mo_occ |-> <<>>]
    /\ chk_args = [kpts |-> <<>>, project |-> FALSE]
    /\ chk_ret = NoChkRet

\* The outcome of get_init_guess before the call.
NoGuessRet == [status |-> "pending", dm_kpts |-> <<>>, source |-> "", log |-> <<>>]

\* get_init_guess is not the call under study.
IdleGuess ==
    /\ guess_args = [key |-> "minao", kpts |-> <<>>, chkfile |-> "missing"]
    /\ guess_ret = NoGuessRet

\* The outcome of canonicalize before the call.
NoCanonRet == [status |-> "pending", mo_energy |-> <<>>, mo_coeff |-> <<>>,
               written |-> <<>>]

\* canonicalize is not the call under study.
IdleCanon ==
    /\ canon_args = [mo_coeff |-> <<>>, mo_occ |-> <<>>, fock |-> <<>>]
    /\ eigh_pick = [sign |-> 1, mix |-> FALSE]
    /\ canon_ret = NoCanonRet

\* ------------------------------------------------------- Python and numpy
\* seq[i] of Python is defined for -len <= i < len; a negative i counts from the end.
PyInRange(seq, i) == -Len(seq) <= i /\ i < Len(seq)
PyAt(seq, i) == IF i >= 0 THEN seq[i + 1] ELSE seq[Len(seq) + i + 1]

RECURSIVE Hstack(_)
\* np.hstack of a list of vectors: their concatenation.
Hstack(vs) == IF vs = <<>> THEN <<>> ELSE Head(vs) \o Hstack(Tail(vs))

RECURSIVE Insert(_, _)
Insert(x, s) ==
    IF s = <<>> THEN <<x>>
    ELSE IF x <= Head(s) THEN <<x>> \o s
    ELSE <<Head(s)>> \o Insert(x, Tail(s))

RECURSIVE NpSort(_)
\* np.sort: the vector in ascending order.
NpSort(s) == IF s = <<>> THEN <<>> ELSE Insert(Head(s), NpSort(Tail(s)))

RECURSIVE SumSeq(_)
SumSeq(s) == IF s = <<>> THEN 0 ELSE Head(s) + SumSeq(Tail(s))

\* Complex numbers are pairs <<re, im>> of integers; matrices are nao x nao
\* with nao = 2, rows and columns indexed by Ao.
Ao == {1, 2}

CAdd(a, b) == <<a[1] + b[1], a[2] + b[2]>>
CMul(a, b) == <<a[1] * b[1] - a[2] * b[2], a[1] * b[2] + a[2] * b[1]>>
CConj(a) == <<a[1], -a[2]>>
CScale(a, n) == <<a[1] * n, a[2] * n>>

RECURSIVE CSum(_)
CSum(s) == IF s = <<>> THEN <<0, 0>> ELSE CAdd(Head(s), CSum(Tail(s)))

\* --------------------------------------------------------------- make_rdm1

\* np.dot(mo*occ, mo.T.conj()): entry (i, l) is sum_j mo[i,j] occ[j] conj(mo[l,j]).
DotOccConj(mo, occ) ==
    [i \in Ao |-> [l \in Ao |->
        CSum([j \in DOMAIN occ |-> CMul(CScale(mo[i][j], occ[j]), CConj(mo[l][j]))])]]

\* make_rdm1(mo_coeff_kpts, mo_occ_kpts): the alpha matrices of the nkpts
\* k-points, then the beta ones, nkpts being the length of the alpha
\* occupations.  mos[k] or occs[k] beyond a list's end raises IndexError.
make_rdm1(mo_coeff_kpts, mo_occ_kpts) ==
    LET nkpts == Len(mo_occ_kpts[Alpha])
        make_dm(mos, occs) == [k \in 1..nkpts |-> DotOccConj(mos[k], occs[k])]
    IN  IF \A s \in {Alpha, Beta} :
               Len(mo_coeff_kpts[s]) >= nkpts /\ Len(mo_occ_kpts[s]) >= nkpts
        THEN [status |-> "returned",
              dm |-> <<make_dm(mo_coeff_kpts[Alpha], mo_occ_kpts[Alpha]),
                       make_dm(mo_coeff_kpts[Beta], mo_occ_kpts[Beta])>>]
        ELSE [status |-> "IndexError", dm |-> <<>>]

\* ----------------------------------------------------------------- get_occ
OccupyStrict(mo_e, fermi) ==
    [i \in DOMAIN mo_e |-> IF mo_e[i] < fermi THEN 1 ELSE 0]

\* (mo_e <= fermi).astype(np.double)
Occupy(mo_e, fermi) ==
    [i \in DOMAIN mo_e |-> IF mo_e[i] <= fermi THEN 1 ELSE 0]

\* The HOMO/LUMO line of one spin.
HomoLumoLine(spin, mo_energy, nocc, fermi) ==
    IF nocc < Len(mo_energy)
    THEN [level |-> "INFO", spin |-> spin, homo |-> fermi,
          lumo |-> <<mo_energy[nocc + 1]>>]
    ELSE [level |-> "INFO", spin |-> spin, homo |-> fermi, lumo |-> <<>>]

\* One line of the DEBUG listing: the occupied and the empty energies of k-point k.
DebugLine(spin, k, mo_e, occ) ==
    [level |-> "DEBUG", spin |-> spin, k |-> k,
     occupied |-> SelectSeq([i \in DOMAIN mo_e |-> <<mo_e[i], occ[i]>>],
                            LAMBDA p : p[2] > 0),
     empty |-> SelectSeq([i \in DOMAIN mo_e |-> <<mo_e[i], occ[i]>>],
                         LAMBDA p : p[2] = 0)]

\* The DEBUG block: set_printoptions, the alpha listing, the beta listing, reset.
\* mo_occ_kpts[1][k] raises IndexError when the beta list is shorter than k+1.
GetOccDebug(energy_kpts, mo_occ_kpts, log, last_sorted) ==
    LET nk == Len(energy_kpts[Alpha])
        alines == [k \in 1..nk |->
                     DebugLine(Alpha, k, energy_kpts[Alpha][k], mo_occ_kpts[Alpha][k])]
        bok == \A k \in 1..nk : PyInRange(mo_occ_kpts[Beta], k - 1)
    IN  IF bok
        THEN [status |-> "returned", mo_occ_kpts |-> mo_occ_kpts,
              log |-> log \o alines \o
                      [k \in 1..nk |->
                         DebugLine(Beta, k, energy_kpts[Beta][k], mo_occ_kpts[Beta][k])],
              np_threshold |-> 1000]
        ELSE [status |-> "IndexError", mo_occ_kpts |-> <<>>,
              log |-> log \o alines,
              np_threshold |-> Len(last_sorted)]

\* get_occ(mf, mo_energy_kpts): the whole function.
get_occ(nelec, verbose, energy_kpts) ==
    LET nkpts == Len(energy_kpts[Alpha])
        nocc_a == nelec[Alpha] * nkpts
        sorted_a == NpSort(Hstack(energy_kpts[Alpha]))
        raised == [status |-> "IndexError", mo_occ_kpts |-> <<>>, log |-> <<>>,
                   np_threshold |-> 1000]
    IN  IF ~PyInRange(sorted_a, nocc_a - 1) THEN raised
        ELSE
        LET fermi_a == PyAt(sorted_a, nocc_a - 1)
            occ_a == [k \in 1..nkpts |-> Occupy(energy_kpts[Alpha][k], fermi_a)]
            log_a == <<HomoLumoLine(Alpha, sorted_a, nocc_a, fermi_a)>>
            nocc_b == nelec[Beta] * nkpts
            sorted_b == NpSort(Hstack(energy_kpts[Beta]))
        IN  IF nelec[Beta] > 0 /\ ~PyInRange(sorted_b, nocc_b - 1)
            THEN [raised EXCEPT !.log = log_a]
            ELSE
            LET fermi_b == PyAt(sorted_b, nocc_b - 1)
                occ_b == IF nelec[Beta] > 0
                         THEN [k \in 1..nkpts |-> Occupy(energy_kpts[Beta][k], fermi_b)]
                         ELSE <<>>
                log_b == IF nelec[Beta] > 0
                         THEN <<HomoLumoLine(Beta, sorted_b, nocc_b, fermi_b)>>
                         ELSE <<>>
                last_sorted == IF nelec[Beta] > 0 THEN sorted_b ELSE sorted_a
            IN  IF verbose = "DEBUG"
                THEN GetOccDebug(energy_kpts, <<occ_a, occ_b>>, log_a \o log_b,
                                 last_sorted)
                ELSE [status |-> "returned", mo_occ_kpts |-> <<occ_a, occ_b>>,
                      log |-> log_a \o log_b, np_threshold |-> 1000]

\* ------------------------------------------------------------- energy_elec
\* Energies are counted in units of 1e-10 Hartree, so the tolerance 1.e-10 of
\* the imaginary part is ImagTol.
ImagTol == 1

\* sum_ij a[i,j] * b[j,i] of one k-point.
TraceProd(a, b) ==
    CSum([i \in Ao |-> CSum([j \in Ao |-> CMul(a[i][j], b[j][i])])])

\* np.einsum('kij,kji', a, b)
Einsum_kij_kji(a, b) == CSum([k \in DOMAIN a |-> TraceProd(a[k], b[k])])

\* abs(flag) for a Python bool: True is 1 and False is 0.
AbsBool(flag) == IF flag THEN 1 ELSE 0

\* energy_elec(mf, dm_kpts, h1e_kpts, vhf_kpts).  The factors 1./nkpts and 0.5
\* are kept as a common denominator: e1 and e_coul below are the code's values
\* times 2*nkpts, so "e_coul.imag > 1.e-10" reads e_coul[2] > ImagTol*2*nkpts.
energy_elec(dm, h1e, vhf) ==
    LET nkpts == Len(h1e)
        e1 == CAdd(Einsum_kij_kji(dm[Alpha], h1e), Einsum_kij_kji(dm[Beta], h1e))
        e1x2 == <<2 * e1[1], 2 * e1[2]>>
        e_coul == CAdd(Einsum_kij_kji(dm[Alpha], vhf[Alpha]),
                       Einsum_kij_kji(dm[Beta], vhf[Beta]))
    IN  IF AbsBool(e_coul[2] > ImagTol * 2 * nkpts) # 0
        THEN [status |-> "RuntimeError", e_tot |-> <<>>, e_coul |-> <<>>,
              imag |-> e_coul[2], denom |-> 2 * nkpts]
        ELSE [status |-> "returned", e_tot |-> <<e1x2[1] + e_coul[1]>>,
              e_coul |-> <<e_coul[1]>>, imag |-> e_coul[2], denom |-> 2 * nkpts]

Zero == <<0, 0>>
One == <<1, 0>>
\* Hermitian densities: one real, one complex.
Densities ==
    { <<<<One, Zero>>, <<Zero, Zero>>>>,
      <<<<One, <<0, 1>>>>, <<<<0, -1>>, One>>>> }
\* Hermitian core Hamiltonians.
Hcores ==
    { <<<<<<-2, 0>>, Zero>>, <<Zero, <<-1, 0>>>>>>,
      <<<<<<-1, 0>>, <<0, 1>>>>, <<<<0, -1>>, <<-1, 0>>>>>> }
\* Effective potentials: a Hermitian one, and three whose diagonal carries an
\* imaginary part (+3, -3 and +1 units), as a non-Hermitian veff would.
Potentials ==
    { <<<<One, <<2, -1>>>>, <<<<2, 1>>, Zero>>>>,
      <<<<<<1, 3>>, Zero>>, <<Zero, One>>>>,
      <<<<<<1, -3>>, Zero>>, <<Zero, One>>>>,
      <<<<<<1, 1>>, Zero>>, <<Zero, One>>>> }

\* Per k-point, the energies as the eigensolver returns them: ascending.
EnergyVectors ==
    {e \in [Orbs -> 0..MaxE] : \A i, j \in Orbs : i < j => e[i] <= e[j]}

InitOcc ==
    /\ pc = "call"
    /\ IdleEnergy /\ IdleCell /\ IdleFock /\ IdleChk /\ IdleGuess /\ IdleCanon
    /\ mf_nelec \in (0..MaxNelec) \X (0..MaxNelec)
    /\ mf_verbose \in Verbosity
    /\ \E nkpts \in 1..MaxKpts :
         mo_energy_kpts \in [{Alpha, Beta} -> [1..nkpts -> EnergyVectors]]
    /\ occ_ret = NoOcc

GetOcc ==
    /\ pc = "call"
    /\ occ_ret' = get_occ(mf_nelec, mf_verbose, mo_energy_kpts)
    /\ pc' = "done"
    /\ UNCHANGED <<mf_nelec, mf_verbose, mo_energy_kpts, energyVars, cell, fockVars, chkVars, guessVars, canonVars>>

NextOcc == GetOcc

SpecOcc == InitOcc /\ [][NextOcc]_vars

InitEnergy ==
    /\ pc = "call"
    /\ IdleOcc /\ IdleCell /\ IdleFock /\ IdleChk /\ IdleGuess /\ IdleCanon
    /\ \E nkpts \in 1..MaxKpts :
         /\ dm_kpts \in [{Alpha, Beta} -> [1..nkpts -> Densities]]
         /\ h1e_kpts \in [1..nkpts -> Hcores]
         /\ vhf_kpts \in [{Alpha, Beta} -> [1..nkpts -> Potentials]]
    /\ energy_ret = NoEnergy

EnergyElec ==
    /\ pc = "call"
    /\ energy_ret' = energy_elec(dm_kpts, h1e_kpts, vhf_kpts)
    /\ pc' = "done"
    /\ UNCHANGED <<dm_kpts, h1e_kpts, vhf_kpts, occVars, cell, fockVars, chkVars, guessVars, canonVars>>

NextEnergy == EnergyElec

SpecEnergy == InitEnergy /\ [][NextEnergy]_vars

\* ----------------------------------------------------------- KUHF.__init__
\* Electrons of the cell are drawn from 0..MaxElectrons, its spin from
\* -MaxSpin..MaxSpin.
MaxElectrons == 6
MaxSpin == 7

BetaCountSignSlip(nelectron, spin) == (nelectron + spin) \div 2

\* n_b = (cell.nelectron - cell.spin) // 2, Python's floor division.
BetaCount(nelectron, spin) == (nelectron - spin) \div 2

\* self.nelec = (cell.nelectron - n_b, n_b)
InitNelec(c) ==
    LET n_b == BetaCount(c.nelectron, c.spin)
    IN  <<c.nelectron - n_b, n_b>>

InitCtor ==
    /\ pc = "call"
    /\ cell \in [nelectron : 0..MaxElectrons, spin : -MaxSpin..MaxSpin,
                natm : {2}, dimension : {3}]
    /\ mf_nelec = <<>>
    /\ mf_verbose = "INFO"
    /\ mo_energy_kpts = <<>>
    /\ occ_ret = NoOcc
    /\ IdleEnergy /\ IdleFock /\ IdleChk /\ IdleGuess /\ IdleCanon

KuhfInit ==
    /\ pc = "call"
    /\ mf_nelec' = InitNelec(cell)
    /\ pc' = "done"
    /\ UNCHANGED <<mf_verbose, mo_energy_kpts, occ_ret, energyVars, cell, fockVars, chkVars, guessVars, canonVars>>

NextCtor == KuhfInit

SpecCtor == InitCtor /\ [][NextCtor]_vars

\* ---------------------------------------------------------------- get_fock
\* Fock, overlap and density matrices have nao = 1: one integer per spin and
\* k-point.  Level shifts are counted in units of 1e-4, so the threshold 1e-4
\* is ShiftTol.
ShiftTol == 1
\* Cycle indices are drawn from -1..MaxCycle; at most MaxCalls calls are made.
MaxCycle == 1
MaxCalls == 2

\* mf.level_shift: a float, or a pair given as a tuple, a list or an ndarray.
LevelShifts ==
    { [kind |-> "float", v |-> <<0>>], [kind |-> "float", v |-> <<1>>],
      [kind |-> "float", v |-> <<-3>>],
      [kind |-> "tuple", v |-> <<3, 0>>], [kind |-> "list", v |-> <<0, 3>>],
      [kind |-> "ndarray", v |-> <<3, 5>>] }

\* isinstance(level_shift_factor, (tuple, list, np.ndarray))
IsPair(ls) == ls.kind \in {"tuple", "list", "ndarray"}

Shifta(ls) == ls.v[1]
Shiftb(ls) == IF IsPair(ls) THEN ls.v[2] ELSE ls.v[1]

Abs(x) == IF x < 0 THEN -x ELSE x

\* The test "abs(level_shift_factor) > 1e-4" of the whole level_shift_factor:
\* abs() of a tuple or a list raises TypeError; of an ndarray it is an array
\* of two booleans, whose truth value raises ValueError.
ShiftTest(ls) ==
    CASE ls.kind = "float" -> IF Abs(ls.v[1]) > ShiftTol THEN "shift" ELSE "skip"
      [] ls.kind \in {"tuple", "list"} -> "TypeError"
      [] ls.kind = "ndarray" -> "ValueError"

\* mol_hf.level_shift(s, d, f, factor) = f + (s - s d s) * factor
level_shift(s, d, f, factor) == f + (s - s * d * s) * factor

\* diis.update(...): the new Fock matrix joins the history; the estimate is an
\* extrapolation over the history, here any one of the stored matrices.
DiisPush(history, f) == Append(history, f)
DiisEstimates(history) == {history[i] : i \in DOMAIN history}

\* f_kpts = h1e_kpts + vhf_kpts, h1e broadcast over the spins.
RawFock(h1e, vhf) ==
    [s \in {Alpha, Beta} |-> [k \in DOMAIN h1e |-> h1e[k] + vhf[s][k]]]

DiisAlways(diis, cycle, diis_start_cycle) == diis # "None"

\* "diis and cycle >= diis_start_cycle"
DiisApplies(diis, cycle, diis_start_cycle) ==
    diis # "None" /\ cycle >= diis_start_cycle

\* The part of get_fock after the extrapolation: the level shift and the return.
FockShift(s_kpts, dm, f_kpts, ls) ==
    LET t == ShiftTest(ls)
    IN  CASE t = "shift" ->
               [status |-> "returned",
                f_kpts |->
                  << [k \in DOMAIN s_kpts |->
                        level_shift(s_kpts[k], dm[Alpha][k], f_kpts[Alpha][k], Shifta(ls))],
                     [k \in DOMAIN s_kpts |->
                        level_shift(s_kpts[k], dm[Beta][k], f_kpts[Beta][k], Shiftb(ls))] >>]
          [] t = "skip" -> [status |-> "returned", f_kpts |-> f_kpts]
          [] OTHER -> [status |-> t, f_kpts |-> <<>>]

\* The inputs of one SCF cycle: the core Hamiltonian and the overlap depend on
\* the k-point, the potential and the density on the spin.
H1e(nkpts) == [k \in 1..nkpts |-> k]
Ovlp(nkpts) == [k \in 1..nkpts |-> 1]
SpinPotentials == {<<0, 2>>, <<4, 0>>}
SpinDensities == {<<1, 0>>, <<0, 1>>}
PerKpt(nkpts, pair) == [s \in {Alpha, Beta} |-> [k \in 1..nkpts |-> pair[s]]]

InitFock ==
    /\ pc = "call"
    /\ IdleOcc /\ IdleEnergy /\ IdleCell /\ IdleChk /\ IdleGuess /\ IdleCanon
    /\ mf_conf \in [nkpts : 1..MaxKpts, diis_start_cycle : 0..MaxCycle,
                    level_shift : LevelShifts, damp : {0, 1}]
    /\ diis_history = <<>>
    /\ ncalls = 0
    /\ fock_call = NoFockCall

\* One call get_fock(mf, h1e, s, vhf, dm, cycle, diis) with the defaults of
\* diis_start_cycle, level_shift_factor and damp_factor taken from mf.
GetFock ==
    /\ pc = "call"
    /\ ncalls < MaxCalls
    /\ \E cycle \in -1..MaxCycle, diis \in {"None", "DIIS"},
          v \in SpinPotentials, d \in SpinDensities :
         LET nk == mf_conf.nkpts
             vhf == PerKpt(nk, v)
             dm == PerKpt(nk, d)
             raw == RawFock(H1e(nk), vhf)
         IN  IF DiisApplies(diis, cycle, mf_conf.diis_start_cycle)
             THEN /\ diis_history' = DiisPush(diis_history, raw)
                  /\ \E est \in DiisEstimates(diis_history') :
                       fock_call' =
                         FockShift(Ovlp(nk), dm, est, mf_conf.level_shift) @@
                         [f_preshift |-> est, updates |-> 1, cycle |-> cycle,
                          diis |-> diis, vhf |-> vhf, dm |-> dm]
             ELSE /\ diis_history' = diis_history
                  /\ fock_call' =
                       FockShift(Ovlp(nk), dm, raw, mf_conf.level_shift) @@
                       [f_preshift |-> raw, updates |-> 0, cycle |-> cycle,
                        diis |-> diis, vhf |-> vhf, dm |-> dm]
    /\ ncalls' = ncalls + 1
    /\ UNCHANGED <<pc, mf_conf, occVars, energyVars, cell, chkVars, guessVars, canonVars>>

NextFock == GetFock

SpecFock == InitFock /\ [][NextFock]_vars

\* --------------------------------------------------- init_guess_by_chkfile
\* Python's None where a k-point or a list of k-points is expected.
None == <<>>
\* k-points are integer 3-vectors.
KPoints == {<<0, 0, 0>>, <<2, 0, 0>>, <<1, 1, 0>>}
KZero == <<0, 0, 0>>

\* Ordered meshes of n distinct k-points.
Meshes(n) == {m \in [1..n -> KPoints] : \A i, j \in 1..n : i # j => m[i] # m[j]}

VSub(a, b) == <<a[1] - b[1], a[2] - b[2], a[3] - b[3]>>
\* The square of lib.norm(a - b): the norm orders as its square does.
Dist2(a, b) ==
    LET d == VSub(a, b) IN d[1] * d[1] + d[2] * d[2] + d[3] * d[3]

ArgFarthest(v) ==
    CHOOSE w \in DOMAIN v :
        /\ \A u \in DOMAIN v : v[u] <= v[w]
        /\ \A u \in DOMAIN v : u < w => v[u] < v[w]

\* np.argmin: the first index of the smallest entry.
Argmin(v) ==
    CHOOSE w \in DOMAIN v :
        /\ \A u \in DOMAIN v : v[w] <= v[u]
        /\ \A u \in DOMAIN v : u < w => v[u] > v[w]

\* where = [np.argmin(lib.norm(chk_kpts-kpt, axis=1)) for kpt in kpts]
Where(chk_kpts, kpts) ==
    [i \in DOMAIN kpts |->
        Argmin([w \in DOMAIN chk_kpts |-> Dist2(chk_kpts[w], kpts[i])])]

\* addons.project_mo_nr2nr(chk_cell, mo, cell, kpt): the external projector,
\* a linear map of the orbitals fixed by the displacement; here row 1 gains
\* ProjCoupling(dk) times row 2, which is the identity for no displacement.
ProjCoupling(dk) ==
    IF dk = None THEN <<0, 0>> ELSE <<dk[1] + 3 * dk[2], dk[3] + dk[1]>>
project_mo_nr2nr(mo, dk) ==
    [i \in DOMAIN mo |-> [j \in DOMAIN mo[i] |->
        IF i = 1 THEN CAdd(mo[1][j], CMul(ProjCoupling(dk), mo[2][j]))
        ELSE mo[i][j]]]

\* fproj(mo, kpts)
fproj(project, mo, dk) == IF project THEN project_mo_nr2nr(mo, dk) ELSE mo

\* dm.real
RealPart(dm) ==
    [s \in DOMAIN dm |-> [k \in DOMAIN dm[s] |->
        [i \in Ao |-> [l \in Ao |-> <<dm[s][k][i][l][1], 0>>]]]]

\* np.allclose(kpts, 0)
AllZero(kpts) == \A i \in DOMAIN kpts : kpts[i] = KZero

\* makedm of the branch "kpts.shape == chk_kpts.shape and np.allclose(...)".
MakedmSameMesh(project, mos, occs) ==
    make_rdm1(<<[k \in DOMAIN mos[Alpha] |-> fproj(project, mos[Alpha][k], None)],
                [k \in DOMAIN mos[Beta] |-> fproj(project, mos[Beta][k], None)]>>,
              occs)

\* makedm of the other branch: nearest checkpoint k-point for each target.
MakedmNearest(project, chk_kpts, kpts, mos, occs) ==
    LET where == Where(chk_kpts, kpts)
        dkpts == [i \in DOMAIN kpts |-> VSub(chk_kpts[where[i]], kpts[i])]
    IN  make_rdm1(
            <<[i \in DOMAIN kpts |-> fproj(project, mos[Alpha][where[i]], dkpts[i])],
              [i \in DOMAIN kpts |-> fproj(project, mos[Beta][where[i]], dkpts[i])]>>,
            <<[i \in DOMAIN kpts |-> occs[Alpha][where[i]]],
              [i \in DOMAIN kpts |-> occs[Beta][where[i]]]>>)

\* (occ > 1e-8).astype(np.double), and occ - mo_occa[k], of a KRHF record.
KrhfOcca(mo_occ) ==
    [k \in DOMAIN mo_occ |-> [j \in DOMAIN mo_occ[k] |->
        IF mo_occ[k][j] > 0 THEN 1 ELSE 0]]
KrhfOccb(mo_occ) ==
    [k \in DOMAIN mo_occ |-> [j \in DOMAIN mo_occ[k] |->
        mo_occ[k][j] - KrhfOcca(mo_occ)[k][j]]]

\* chk_kpts: scf_rec['kpt'].reshape(-1,3), scf_rec['kpts'], or np.zeros((1,3)).
ChkKpts(rec) == IF rec.form = "gamma" THEN <<KZero>> ELSE rec.kpts

\* init_guess_by_chkfile(cell, chkfile_name, project, kpts).  A record of a
\* single-k-point run (form "kpt" or "gamma") holds the orbitals of that one
\* point; expand_dims makes them the one-entry lists kept in rec.
init_guess_by_chkfile(rec, args) ==
    IF args.kpts = None /\ rec.form # "kpts"
    THEN [status |-> "KeyError", dm |-> <<>>]
    ELSE
    LET kpts == IF args.kpts = None THEN rec.kpts ELSE args.kpts
        chk_kpts == ChkKpts(rec)
        mos == IF rec.wfn = "KRHF" THEN <<rec.mo_coeff, rec.mo_coeff>>
               ELSE rec.mo_coeff
        occs == IF rec.wfn = "KRHF"
                THEN <<KrhfOcca(rec.mo_occ), KrhfOccb(rec.mo_occ)>>
                ELSE rec.mo_occ
        made == IF Len(kpts) = Len(chk_kpts) /\ kpts = chk_kpts
                THEN MakedmSameMesh(args.project, mos, occs)
                ELSE MakedmNearest(args.project, chk_kpts, kpts, mos, occs)
    IN  IF made.status = "returned" /\ AllZero(kpts)
        THEN [made EXCEPT !.dm = RealPart(made.dm)]
        ELSE made

\* The orbitals stored for spin s and checkpoint k-point w: real at the
\* origin, [[w, s], [s, w]], and complex elsewhere, [[w, i s], [i s, w]].
ChkMo(s, w, kpt) ==
    IF kpt = KZero
    THEN << <<<<w, 0>>, <<s, 0>>>>, <<<<s, 0>>, <<w, 0>>>> >>
    ELSE << <<<<w, 0>>, <<0, s>>>>, <<<<0, s>>, <<w, 0>>>> >>
\* Occupation vectors of a KUHF and of a KRHF record.
UhfOccs == {<<1, 0>>, <<1, 1>>}
RhfOccs == {<<2, 0>>, <<2, 1>>}

\* The records of a k-point run (form "kpts") on mesh m, and, for a single
\* point, of a single-k-point run (form "kpt").
MeshRecords(n, m) ==
    LET forms == IF n = 1 THEN {"kpts", "kpt"} ELSE {"kpts"}
    IN  { [form |-> f, wfn |-> "KUHF", kpts |-> m,
           mo_coeff |-> [s \in {Alpha, Beta} |-> [w \in 1..n |-> ChkMo(s, w, m[w])]],
           mo_occ |-> o] : o \in [{Alpha, Beta} -> [1..n -> UhfOccs]], f \in forms }
        \cup
        { [form |-> f, wfn |-> "KRHF", kpts |-> m,
           mo_coeff |-> [w \in 1..n |-> ChkMo(Alpha, w, m[w])],
           mo_occ |-> o] : o \in [1..n -> RhfOccs], f \in forms }

\* The records of a run without k-points (neither 'kpt' nor 'kpts' stored).
GammaRecords ==
    { [form |-> "gamma", wfn |-> "KUHF", kpts |-> <<>>,
       mo_coeff |-> [s \in {Alpha, Beta} |-> <<ChkMo(s, 1, KZero)>>],
       mo_occ |-> o] : o \in [{Alpha, Beta} -> [1..1 -> UhfOccs]] }

ChkRecords ==
    GammaRecords \cup
    UNION { UNION { MeshRecords(n, m) : m \in Meshes(n) } : n \in 1..MaxKpts }

InitChk ==
    /\ pc = "call"
    /\ IdleOcc /\ IdleEnergy /\ IdleCell /\ IdleFock /\ IdleGuess /\ IdleCanon
    /\ scf_rec \in ChkRecords
    /\ chk_args \in [kpts : {None} \cup UNION {Meshes(n) : n \in 1..MaxKpts},
                     project : BOOLEAN]
    /\ chk_ret = NoChkRet

InitGuessByChkfile ==
    /\ pc = "call"
    /\ chk_ret' = init_guess_by_chkfile(scf_rec, chk_args)
    /\ pc' = "done"
    /\ UNCHANGED <<scf_rec, chk_args, occVars, energyVars, cell, fockVars, guessVars, canonVars>>

NextChk == InitGuessByChkfile

SpecChk == InitChk /\ [][NextChk]_vars

\* ------------------------------------------------------ KUHF.get_init_guess
\* Densities of a guess are counted in hundredths, so that the factors 1.01
\* and 0.99 are the integers AlphaBias and BetaBias over Hundred.
Hundred == 100
AlphaBias == 101
BetaBias == 99

Keys == {"1e", "atom", "chk", "CHKFILE", "minao"}
\* key.lower()
Lower(key) == IF key = "CHKFILE" THEN "chkfile" ELSE key
\* key.lower().startswith('chk')
StartsWithChk(key) == Lower(key) \in {"chk", "chkfile"}

\* The (2, nao, nao) densities of the guesses inherited from the molecular
\* code: the same matrix for both spins.
IdentityMat == << <<One, Zero>>, <<Zero, One>> >>
init_guess_by_1e == << << <<Zero, Zero>>, <<Zero, One>> >>,
                       << <<Zero, Zero>>, <<Zero, One>> >> >>
init_guess_by_atom == <<IdentityMat, IdentityMat>>
init_guess_by_minao == << << <<One, Zero>>, <<Zero, Zero>> >>,
                          << <<One, Zero>>, <<Zero, Zero>> >> >>

MatScale(mat, n) == [i \in Ao |-> [l \in Ao |-> CScale(mat[i][l], n)]]

\* lib.asarray([dm]*nkpts).reshape(nkpts,2,nao,nao).transpose(1,0,2,3), then
\* dm_kpts[0,:] *= 1.01 and dm_kpts[1,:] *= 0.99.
Replicate(dm, nkpts) ==
    LET stacked == [k \in 1..nkpts |-> dm]
        transposed == [x \in {Alpha, Beta} |-> [k \in 1..nkpts |-> stacked[k][x]]]
    IN  [x \in {Alpha, Beta} |-> [k \in 1..nkpts |->
            MatScale(transposed[x][k], IF x = Alpha THEN AlphaBias ELSE BetaBias)]]

\* cell.nelec: the electrons per spin of the cell.
CellNelec(c) ==
    LET n_a == (c.nelectron + c.spin) \div 2 IN <<n_a, c.nelectron - n_a>>

\* The low-dimension correction.  ne = einsum('xkij,kji->xk', dm_kpts, ovlp)
\* with the overlap of an orthonormal basis; when any ne differs from
\* cell.nelec, every dm_kpts[x][k] is multiplied by nelec[x]/ne[x][k], kept
\* here as the fraction num/den.
Normalize(c, dms) ==
    LET ne == [x \in {Alpha, Beta} |-> [k \in DOMAIN dms[x] |->
                  TraceProd(dms[x][k], IdentityMat)]]
        nelec == CellNelec(c)
        off == \E x \in {Alpha, Beta} : \E k \in DOMAIN dms[x] :
                   ne[x][k] # <<Hundred * nelec[x], 0>>
        asis == [x \in {Alpha, Beta} |-> [k \in DOMAIN dms[x] |->
                   [num |-> dms[x][k], den |-> <<1, 0>>]]]
    IN  IF c.dimension < 3 /\ off
        THEN [dm |-> [x \in {Alpha, Beta} |-> [k \in DOMAIN dms[x] |->
                        [num |-> MatScale(dms[x][k], Hundred * nelec[x]),
                         den |-> ne[x][k]]]],
              log |-> <<"warn: big error in the electron number">>]
        ELSE [dm |-> asis, log |-> <<>>]

\* self.from_chk(): the checkpoint is read and projected on mf.kpts; a missing
\* file raises IOError, a missing key KeyError.
from_chk(chkfile, rec, kpts) ==
    CASE chkfile = "missing" -> [status |-> "IOError", dm |-> <<>>]
      [] chkfile = "nokey" -> [status |-> "KeyError", dm |-> <<>>]
      [] OTHER ->
           LET r == init_guess_by_chkfile(rec, [kpts |-> kpts, project |-> TRUE])
           IN  IF r.status = "returned"
               THEN [r EXCEPT !.dm = [x \in {Alpha, Beta} |-> [k \in DOMAIN r.dm[x] |->
                                         MatScale(r.dm[x][k], Hundred)]]]
               ELSE r

CaughtIOErrorOnly(exc) == exc = "IOError"

\* except (IOError, KeyError)
Caught(exc) == exc \in {"IOError", "KeyError"}

\* get_init_guess(self, cell, key)
get_init_guess(c, args, rec) ==
    LET nkpts == Len(args.kpts)
        plain(dm, source, log) ==
            LET n == Normalize(c, Replicate(dm, nkpts))
            IN  [status |-> "returned", dm_kpts |-> n.dm, source |-> source,
                 log |-> log \o n.log]
        warn1e == IF c.dimension < 3
                  THEN <<"warn: Hcore initial guess is not recommended">> ELSE <<>>
    IN  IF Lower(args.key) = "1e" THEN plain(init_guess_by_1e, "1e", warn1e)
        ELSE IF c.natm = 0
        THEN plain(init_guess_by_1e, "1e", <<"info: No atom found in cell">> \o warn1e)
        ELSE IF Lower(args.key) = "atom" THEN plain(init_guess_by_atom, "atom", <<>>)
        ELSE IF StartsWithChk(args.key)
        THEN LET r == from_chk(args.chkfile, rec, args.kpts)
             IN  IF r.status = "returned"
                 THEN LET n == Normalize(c, r.dm)
                      IN  [status |-> "returned", dm_kpts |-> n.dm,
                           source |-> "chk", log |-> n.log]
                 ELSE IF Caught(r.status)
                 THEN plain(init_guess_by_minao, "minao",
                            <<"warn: Fail in reading chkfile. Use MINAO initial guess">>)
                 ELSE [status |-> r.status, dm_kpts |-> <<>>, source |-> "",
                       log |-> <<>>]
        ELSE plain(init_guess_by_minao, "minao", <<>>)

\* The checkpoint records of the guess: KUHF runs with one occupied orbital.
GuessRecords ==
    {r \in ChkRecords :
        /\ r.wfn = "KUHF"
        /\ \A x \in {Alpha, Beta} : \A w \in DOMAIN r.mo_occ[x] :
               r.mo_occ[x][w] = <<1, 0>>}

InitGuess ==
    /\ pc = "call"
    /\ IdleOcc /\ IdleEnergy /\ IdleFock /\ IdleCanon
    /\ cell \in [nelectron : {2}, spin : {0}, natm : {0, 2}, dimension : {2, 3}]
    /\ guess_args \in [key : Keys, kpts : UNION {Meshes(n) : n \in 1..MaxKpts},
                       chkfile : {"missing", "nokey", "ok"}]
    /\ scf_rec \in GuessRecords
    /\ guess_args.chkfile # "ok" => scf_rec \in GammaRecords
    /\ chk_args = [kpts |-> <<>>, project |-> FALSE]
    /\ chk_ret = NoChkRet
    /\ guess_ret = NoGuessRet

GetInitGuess ==
    /\ pc = "call"
    /\ guess_ret' = get_init_guess(cell, guess_args, scf_rec)
    /\ pc' = "done"
    /\ UNCHANGED <<guess_args, occVars, energyVars, cell, fockVars, chkVars, canonVars>>

NextGuess == GetInitGuess

SpecGuess == InitGuess /\ [][NextGuess]_vars

\* ------------------------------------------------------------ canonicalize

\* Canonical orbital coefficients are counted in fifths, so that the rotation
\* with columns (3,-4)/5 and (4,3)/5 is exact in integers.
Fifth == 5
Fifths == {-5, -4, -3, 0, 3, 4, 5}

\* The vector of length n <= 3 with entries G(1), ..., G(n), and the n x m
\* matrix with entries G(a, b).
Vec(n, G(_)) ==
    IF n = 0 THEN <<>>
    ELSE IF n = 1 THEN <<G(1)>>
    ELSE IF n = 2 THEN <<G(1), G(2)>>
    ELSE <<G(1), G(2), G(3)>>
Mat(n, m, G(_, _)) ==
    LET row(a) == LET g(b) == G(a, b) IN Vec(m, g)
    IN  Vec(n, row)

\* The real vectors of length one and two and of norm one, in fifths.
UnitVectors1 == {<<Fifth>>, <<-Fifth>>}
UnitVectors2 == {v \in Fifths \X Fifths : v[1] * v[1] + v[2] * v[2] = Fifth * Fifth}

\* f1 applied to the vector v.
Apply(f1, v) ==
    LET g(a) == CSum([r \in 1..Len(f1) |-> CScale(f1[a][r], v[r])])
    IN  Vec(Len(f1), g)

\* The eigenvalue that v would belong to.
EigVal(f1, v) ==
    LET a == CHOOSE a \in 1..Len(f1) : v[a] # 0
    IN  Apply(f1, v)[a][1] \div v[a]

\* v is an eigenvector of f1.
IsEigVector(f1, v) ==
    \E fv \in {Apply(f1, v)} : \E e \in {EigVal(f1, v)} :
        \A a \in 1..Len(f1) : fv[a] = <<e * v[a], 0>>

\* The matrices c, c[a][b] the entry of row a and column b, that diagonalize
\* f1 with ascending eigenvalues: orthonormal columns, each an eigenvector.
Solutions(f1) ==
    IF Len(f1) = 1
    THEN {<<<<v[1]>>>> : v \in UnitVectors1}
    ELSE UNION {{<<<<v[1], w[1]>>, <<v[2], w[2]>>>> :
                    w \in {x \in {<<-v[2], v[1]>>, <<v[2], -v[1]>>} :
                              IsEigVector(f1, x) /\ EigVal(f1, v) <= EigVal(f1, x)}} :
                v \in {x \in UnitVectors2 : IsEigVector(f1, x)}}

\* Column b of c.
Col(c, b) == [a \in 1..Len(c) |-> c[a][b]]

\* The sign of the leading entry of column b.
LeadSign(c, b) ==
    LET a == CHOOSE a \in 1..Len(c) :
                 c[a][b] # 0 /\ \A r \in 1..(a - 1) : c[r][b] = 0
    IN  IF c[a][b] > 0 THEN 1 ELSE -1

\* c combines basis vectors rather than permuting them.
Mixes(c) == \E a, b \in 1..Len(c) : c[a][b] \notin {-Fifth, 0, Fifth}

\* scipy.linalg.eigh(f1): ascending eigenvalues e and eigenvectors c with
\* f1 c = c diag(e).  The sign of a column, and the basis of a degenerate
\* eigenspace, are the library's choice: pick says which one it makes.
eigh(f1, pick) ==
    LET degenerate == Len(f1) = 2 /\ f1[1][2] = <<0, 0>> /\ f1[1][1] = f1[2][2]
        e(c) == LET g(b) == EigVal(f1, Col(c, b)) IN Vec(Len(f1), g)
    IN  CHOOSE r \in {[e |-> e(c), c |-> c] : c \in Solutions(f1)} :
            /\ \A b \in 1..Len(f1) : LeadSign(r.c, b) = pick.sign
            /\ degenerate => (Mixes(r.c) = pick.mix)

RECURSIVE Nonzero(_, _)
\* The positions of the True entries of the mask idx from position j on.
Nonzero(idx, j) ==
    IF j > Len(idx) THEN <<>>
    ELSE (IF idx[j] THEN <<j>> ELSE <<>>) \o Nonzero(idx, j + 1)

\* eig_(fock, mo, idx, es, cs): diagonalize fock within the orbitals selected
\* by idx and store the energies and the rotated columns at those indices.
eig_(fock, mo, idx, out, pick) ==
    LET cols == Nonzero(idx, 1)
        n    == Len(cols)
        f1   == LET g(a, b) ==
                        CSum([x \in 1..4 |->
                            LET i == ((x - 1) \div 2) + 1
                                l == ((x - 1) % 2) + 1
                            IN  CMul(CMul(CConj(mo[i][cols[a]]), fock[i][l]),
                                     mo[l][cols[b]])])
                IN  Mat(n, n, g)
        ec   == eigh(f1, pick)
        pos(j) == CHOOSE a \in 1..n : cols[a] = j
        e(j) == IF idx[j] THEN ec.e[pos(j)] ELSE out.es[j]
        c(i, j) == IF idx[j]
                   THEN CSum([a \in 1..n |-> CScale(mo[i][cols[a]], ec.c[a][pos(j)])])
                   ELSE out.cs[i][j]
    IN  IF n > 0
        THEN [es |-> Vec(Len(idx), e),
              cs |-> Mat(2, Len(idx), c),
              written |-> out.written \cup {j \in DOMAIN idx : idx[j]}]
        ELSE out

\* A mask that selects every orbital.
OccIdxAll(occ) == <<TRUE, TRUE>>

\* occidx = mo_occ_kpts[s][k] == 1
OccIdx(occ) == <<occ[1] = 1, occ[2] = 1>>

\* One pass of the loops over k: np.empty_like outputs, then the occupied
\* and the virtual orbitals.
CanonOne(fock, mo, occ, pick) ==
    LET empty  == [es |-> <<0, 0>>,
                   cs |-> <<<<<<0, 0>>, <<0, 0>>>>, <<<<0, 0>>, <<0, 0>>>>>>,
                   written |-> {}]
        occidx == OccIdx(occ)
        viridx == <<~occidx[1], ~occidx[2]>>
    IN  eig_(fock, mo, viridx, eig_(fock, mo, occidx, empty, pick), pick)

\* canonicalize(mf, mo_coeff_kpts, mo_occ_kpts, fock).  Without a Fock matrix
\* it adds the pair (vj, vk) that get_jk returns to the core Hamiltonian:
\* the sum has two more axes than a Fock matrix, fock[0][0] is not a square
\* matrix and eigh raises ValueError.
canonicalize(args, pick) ==
    LET loop(s, k) == CanonOne(args.fock[s][k], args.mo_coeff[s][k],
                               args.mo_occ[s][k], pick)
        spin(s) == LET one(k) == loop(s, k) IN Vec(Len(args.mo_coeff[s]), one)
        all == <<spin(Alpha), spin(Beta)>>
        field(f) == [s \in {Alpha, Beta} |-> [k \in 1..Len(all[s]) |-> all[s][k][f]]]
    IN  IF args.fock = None
        THEN [status |-> "ValueError", mo_energy |-> <<>>, mo_coeff |-> <<>>,
              written |-> <<>>]
        ELSE [status |-> "returned", mo_energy |-> field("es"),
              mo_coeff |-> field("cs"), written |-> field("written")]

\* A real matrix as a complex one.
Cplx(m) == <<<<<<m[1][1], 0>>, <<m[1][2], 0>>>>, <<<<m[2][1], 0>>, <<m[2][2], 0>>>>>>

\* Orthonormal orbitals (the overlap is the identity).
CanonOrbitals == {Cplx(<<<<1, 0>>, <<0, 1>>>>), Cplx(<<<<0, 1>>, <<-1, 0>>>>)}

\* Hermitian Fock matrices: ordered, inverted, coupled and degenerate levels.
CanonFocks == {Cplx(<<<<1, 0>>, <<0, 2>>>>), Cplx(<<<<2, 0>>, <<0, 1>>>>),
               Cplx(<<<<16, 12>>, <<12, 9>>>>), Cplx(<<<<1, 0>>, <<0, 1>>>>)}

AlphaOccs == {<<1, 1>>, <<1, 0>>, <<0, 1>>}
BetaOccs == {<<1, 0>>, <<0, 1>>, <<0, 0>>}
EighPicks == [sign : {1, -1}, mix : BOOLEAN]

InitCanon ==
    /\ pc = "call"
    /\ IdleOcc /\ IdleEnergy /\ IdleCell /\ IdleFock /\ IdleChk /\ IdleGuess
    /\ \E n \in 1..MaxKpts : \E mo \in CanonOrbitals :
       \E f \in CanonFocks \cup {None} :
       \E oa \in [1..n -> AlphaOccs] : \E ob \in BetaOccs :
           canon_args = [mo_coeff |-> [s \in {Alpha, Beta} |-> [k \in 1..n |-> mo]],
                         mo_occ   |-> <<oa, [k \in 1..n |-> ob]>>,
                         fock     |-> IF f = None THEN None
                                      ELSE [s \in {Alpha, Beta} |-> [k \in 1..n |-> f]]]
    /\ eigh_pick = [sign |-> 1, mix |-> FALSE]
    /\ canon_ret = NoCanonRet

Canonicalize ==
    /\ pc = "call"
    /\ \E pick \in EighPicks :
           /\ eigh_pick' = pick
           /\ canon_ret' = canonicalize(canon_args, pick)
    /\ pc' = "done"
    /\ UNCHANGED <<canon_args, occVars, energyVars, cell, fockVars, chkVars, guessVars>>

NextCanon == Canonicalize

SpecCanon == InitCanon /\ [][NextCanon]_vars

\* ------------------------------------------------------- claims on get_occ
\* All positions (k, i) of one spin's energies.
Positions(energy_spin) ==
    {<<k, i>> : k \in DOMAIN energy_spin, i \in Orbs}

\* Occupied orbitals of one spin, summed over the k-points.
CountOcc(occ_spin) == SumSeq([k \in DOMAIN occ_spin |-> SumSeq(occ_spin[k])])

NKpts == Len(mo_energy_kpts[Alpha])
NOrbitals == NKpts * Cardinality(Orbs)

\* The call returned for an input within the documented range of nelec.
OccReturnedValid ==
    /\ pc = "done"
    /\ occ_ret.status = "returned"
    /\ \A s \in {Alpha, Beta} : mf_nelec[s] * NKpts <= NOrbitals

\* C1 (as claimed): for every input, ties and empty channels included, the
\* occupied orbitals of each spin summed over the k-points number
\* nelec[spin] * nkpts exactly.
C1_OccSumExact ==
    OccReturnedValid =>
        \A s \in {Alpha, Beta} :
            CountOcc(occ_ret.mo_occ_kpts[s]) = mf_nelec[s] * NKpts

\* v is at 0-indexed rank r of the ascending sort of the pooled energies:
\* at most r energies lie strictly below v and more than r lie at or below it.
AtRank(energy_spin, v, r) ==
    /\ Cardinality({p \in Positions(energy_spin) : energy_spin[p[1]][p[2]] < v}) <= r
    /\ Cardinality({p \in Positions(energy_spin) : energy_spin[p[1]][p[2]] <= v}) > r

\* C2: for each spin with nelec[spin] > 0 there is a single Fermi level, the
\* energy at rank nelec[spin]*nkpts - 1 of the pooled ascending energies, and
\* every orbital of every k-point is occupied exactly when its energy is at
\* or below that level.
C2_GlobalFermiThreshold ==
    OccReturnedValid =>
        \A s \in {Alpha, Beta} :
            mf_nelec[s] > 0 =>
                \E f \in 0..MaxE :
                    /\ AtRank(mo_energy_kpts[s], f, mf_nelec[s] * NKpts - 1)
                    /\ Len(occ_ret.mo_occ_kpts[s]) = NKpts
                    /\ \A p \in Positions(mo_energy_kpts[s]) :
                         occ_ret.mo_occ_kpts[s][p[1]][p[2]] =
                             IF mo_energy_kpts[s][p[1]][p[2]] <= f THEN 1 ELSE 0

\* C2's case: two k-points, both spins populated, and the global threshold
\* fills the two k-points unevenly (no per-k-point count would).
C2_Witness ==
    /\ OccReturnedValid
    /\ NKpts = 2
    /\ mf_nelec[Alpha] > 0 /\ mf_nelec[Beta] > 0
    /\ SumSeq(occ_ret.mo_occ_kpts[Alpha][1]) # SumSeq(occ_ret.mo_occ_kpts[Alpha][2])
    /\ SumSeq(occ_ret.mo_occ_kpts[Beta][1]) = 0
    /\ SumSeq(occ_ret.mo_occ_kpts[Beta][2]) = 2

\* C6 (as claimed): the outcome and the occupations of get_occ are those of
\* the same call with diagnostics below DEBUG, whatever the verbosity.
C6_DiagnosticsAdvisory ==
    pc = "done" =>
        /\ occ_ret.status = get_occ(mf_nelec, "INFO", mo_energy_kpts).status
        /\ occ_ret.mo_occ_kpts = get_occ(mf_nelec, "INFO", mo_energy_kpts).mo_occ_kpts

\* Orbital coefficients that match the energies passed to get_occ: one
\* nao x nmo matrix per spin and k-point.
MatchingCoeffs == [s \in {Alpha, Beta} |-> [k \in 1..NKpts |-> IdentityMat]]

\* C12 (as claimed): for every nelec, nelec[beta] = 0 included, get_occ
\* returns for each spin nkpts occupation vectors, each as long as that
\* k-point's energy vector, and make_rdm1 of them with the matching orbital
\* coefficients is defined and has nkpts matrices per spin.
C12_OccMirrorsCoeffShape ==
    OccReturnedValid =>
        /\ \A s \in {Alpha, Beta} :
             /\ Len(occ_ret.mo_occ_kpts[s]) = NKpts
             /\ \A k \in 1..NKpts :
                  DOMAIN occ_ret.mo_occ_kpts[s][k] = DOMAIN mo_energy_kpts[s][k]
        /\ LET dm == make_rdm1(MatchingCoeffs, occ_ret.mo_occ_kpts)
           IN  /\ dm.status = "returned"
               /\ \A s \in {Alpha, Beta} : Len(dm.dm[s]) = NKpts

\* --------------------------------------------------- claims on energy_elec
\* C3 (as claimed): energy_elec raises exactly when the imaginary part of
\* e_coul exceeds 1e-10 in magnitude, positive or negative, and returns the
\* real pair otherwise.
C3_RaisesOnImaginaryCoulomb ==
    pc = "done" =>
        LET big == \/ energy_ret.imag > ImagTol * energy_ret.denom
                   \/ energy_ret.imag < -(ImagTol * energy_ret.denom)
        IN  /\ big => energy_ret.status = "RuntimeError"
            /\ ~big => energy_ret.status = "returned"

\* ------------------------------------------------- claims on KUHF.__init__
\* C8 (as claimed): for every nelectron >= 0 and every integer spin, negative
\* spin included, the constructor sets n_alpha >= n_beta.
C8_AlphaAtLeastBeta ==
    pc = "done" => mf_nelec[Alpha] >= mf_nelec[Beta]

\* C8 (amended): for every nelectron >= 0 and every spin >= 0 (of either
\* parity, and also above nelectron) the constructor sets n_alpha >= n_beta,
\* and the two counts add up to nelectron.
C8_AlphaAtLeastBetaNonNegSpin ==
    pc = "done" /\ cell.spin >= 0 =>
        /\ mf_nelec[Alpha] >= mf_nelec[Beta]
        /\ mf_nelec[Alpha] + mf_nelec[Beta] = cell.nelectron

\* C8's case: a spin above the electron count and of the opposite parity.
C8_Witness ==
    /\ pc = "done"
    /\ cell.spin > cell.nelectron /\ cell.nelectron > 0
    /\ (cell.spin + cell.nelectron) % 2 = 1
    /\ mf_nelec[Alpha] > mf_nelec[Beta]

\* ------------------------------------------------------ claims on get_fock
\* The last call was given an extrapolator and a cycle >= diis_start_cycle.
DiisDue(call) == call.diis # "None" /\ call.cycle >= mf_conf.diis_start_cycle

\* h1e + veff of the last call, entry by entry.
IsRawFock(f, call) ==
    \A s \in {Alpha, Beta} : \A k \in 1..mf_conf.nkpts :
        f[s][k] = H1e(mf_conf.nkpts)[k] + call.vhf[s][k]

\* C9: a call of get_fock with an extrapolator and cycle >= diis_start_cycle
\* invokes update exactly once (the history grows by the raw Fock matrix) and
\* the Fock matrix becomes the extrapolator's estimate; any other call, the
\* default cycle = -1 included, leaves the history unchanged and its Fock
\* matrix before the level shift is h1e + veff.
C9_DiisOncePerCall ==
    [][ncalls' = ncalls + 1 =>
          IF DiisDue(fock_call')
          THEN /\ fock_call'.updates = 1
               /\ Len(diis_history') = Len(diis_history) + 1
               /\ SubSeq(diis_history', 1, Len(diis_history)) = diis_history
               /\ IsRawFock(diis_history'[Len(diis_history')], fock_call')
               /\ fock_call'.f_preshift \in DiisEstimates(diis_history')
          ELSE /\ fock_call'.updates = 0
               /\ diis_history' = diis_history
               /\ IsRawFock(fock_call'.f_preshift, fock_call')]_vars

\* C9's case: the second of two extrapolated calls returned, and its Fock
\* matrix is the extrapolator's estimate, not the h1e + veff of that call.
C9_Witness ==
    /\ ncalls = 2
    /\ Len(diis_history) = 2
    /\ fock_call.updates = 1
    /\ fock_call.status = "returned"
    /\ ~IsRawFock(fock_call.f_preshift, fock_call)

\* C10 (as claimed): get_fock completes for a float and for an (alpha, beta)
\* pair, and shifts the alpha Fock matrices by the alpha magnitude and the
\* beta ones by the beta magnitude, each when its magnitude exceeds 1e-4.
C10_LevelShiftPerSpin ==
    ncalls > 0 =>
        /\ fock_call.status = "returned"
        /\ \A s \in {Alpha, Beta} : \A k \in 1..mf_conf.nkpts :
             LET mag == IF s = Alpha THEN Shifta(mf_conf.level_shift)
                        ELSE Shiftb(mf_conf.level_shift)
             IN  fock_call.f_kpts[s][k] =
                     IF Abs(mag) > ShiftTol
                     THEN fock_call.f_preshift[s][k] + (1 - fock_call.dm[s][k]) * mag
                     ELSE fock_call.f_preshift[s][k]

\* C11 (as claimed): with damp # 0 the Fock matrix of a call is a mix of the
\* current h1e + veff and the Fock matrix the previous call returned, spin by
\* spin, so it depends on damp: in a call without extrapolation, wherever the
\* previous Fock matrix differs from the current h1e + veff, the Fock matrix
\* before the level shift differs from h1e + veff too.
C11_DampMixesFock ==
    [][(/\ ncalls' = ncalls + 1
        /\ mf_conf.damp # 0
        /\ fock_call.status = "returned"
        /\ fock_call'.status = "returned"
        /\ ~DiisDue(fock_call'))
       => \A s \in {Alpha, Beta} : \A k \in 1..mf_conf.nkpts :
              LET current == H1e(mf_conf.nkpts)[k] + fock_call'.vhf[s][k]
              IN  fock_call.f_kpts[s][k] # current
                      => fock_call'.f_preshift[s][k] # current]_vars

\* ----------------------------------------- claims on init_guess_by_chkfile
\* The target mesh, the checkpoint mesh, and the checkpoint's orbitals and
\* occupations per spin, as the call under study sees them.
TargetKpts == IF chk_args.kpts = None THEN scf_rec.kpts ELSE chk_args.kpts
RecMo(s) == IF scf_rec.wfn = "KRHF" THEN scf_rec.mo_coeff ELSE scf_rec.mo_coeff[s]
RecOcc(s) ==
    IF scf_rec.wfn = "KRHF"
    THEN [w \in DOMAIN scf_rec.mo_occ |-> [j \in DOMAIN scf_rec.mo_occ[w] |->
            IF s = Alpha
            THEN (IF scf_rec.mo_occ[w][j] > 0 THEN 1 ELSE 0)
            ELSE scf_rec.mo_occ[w][j] - (IF scf_rec.mo_occ[w][j] > 0 THEN 1 ELSE 0)]]
    ELSE scf_rec.mo_occ[s]

\* The density of spin s built from checkpoint k-point w alone, its orbitals
\* projected with displacement dk.
DensityFrom(s, w, dk) ==
    DotOccConj(fproj(chk_args.project, RecMo(s)[w], dk), RecOcc(s)[w])

ReOf(mat) == [i \in Ao |-> [l \in Ao |-> <<mat[i][l][1], 0>>]]

\* C7: the density has one entry per target k-point, in target order.  On
\* equal meshes entry i of each spin is built from checkpoint k-point i, so
\* the result is make_rdm1 of the projected checkpoint orbitals and the
\* checkpoint occupations.  Otherwise entry i of both spins is built from the
\* orbitals and the occupations of one checkpoint k-point w, which is at the
\* smallest distance from target i, projected with chk_kpts[w] - kpts[i]
\* (the real part of it when every target k-point is the origin).
C7_ChkSameKpointPerTarget ==
    pc = "done" /\ chk_ret.status = "returned" =>
        LET kpts == TargetKpts
            chk == ChkKpts(scf_rec)
        IN  /\ \A s \in {Alpha, Beta} : Len(chk_ret.dm[s]) = Len(kpts)
            /\ kpts = chk =>
                 \A s \in {Alpha, Beta} : \A i \in DOMAIN kpts :
                     chk_ret.dm[s][i] = DensityFrom(s, i, None)
            /\ kpts # chk =>
                 \A i \in DOMAIN kpts : \E w \in DOMAIN chk :
                     /\ \A u \in DOMAIN chk :
                          Dist2(chk[w], kpts[i]) <= Dist2(chk[u], kpts[i])
                     /\ \A s \in {Alpha, Beta} :
                          chk_ret.dm[s][i] =
                              IF AllZero(kpts)
                              THEN ReOf(DensityFrom(s, w, VSub(chk[w], kpts[i])))
                              ELSE DensityFrom(s, w, VSub(chk[w], kpts[i]))

\* C7's case: a two-point target mesh against a different two-point
\* checkpoint mesh whose occupations differ between its k-points, where both
\* targets are nearest to the second checkpoint k-point.
C7_Witness ==
    /\ pc = "done" /\ chk_ret.status = "returned"
    /\ scf_rec.wfn = "KUHF" /\ chk_args.project
    /\ Len(TargetKpts) = 2 /\ Len(ChkKpts(scf_rec)) = 2
    /\ TargetKpts # ChkKpts(scf_rec)
    /\ scf_rec.mo_occ[Alpha][1] # scf_rec.mo_occ[Alpha][2]
    /\ Where(ChkKpts(scf_rec), TargetKpts) = <<2, 2>>
    /\ chk_ret.dm[Alpha][1] # chk_ret.dm[Alpha][2]

\* ---------------------------------------------------- claims on get_init_guess
\* The call under study takes the checkpoint branch and the read fails.
ChkReadFails ==
    /\ StartsWithChk(guess_args.key)
    /\ cell.natm # 0
    /\ guess_args.chkfile \in {"missing", "nokey"}

\* C5: with a key starting with 'chk', a failed checkpoint read (I/O error or
\* missing key) does not propagate: the call returns the minimal-basis guess
\* after a warning, and the density is the one key = 'minao' returns for the
\* same cell and k-points: two spins, each with one matrix per k-point, the
\* same matrix at every k-point.
C5_ChkFailureFallsBack ==
    pc = "done" /\ ChkReadFails =>
        /\ guess_ret.status = "returned"
        /\ guess_ret.source = "minao"
        /\ \E i \in DOMAIN guess_ret.log :
             guess_ret.log[i] = "warn: Fail in reading chkfile. Use MINAO initial guess"
        /\ guess_ret.dm_kpts =
               get_init_guess(cell, [guess_args EXCEPT !.key = "minao"], scf_rec).dm_kpts
        /\ DOMAIN guess_ret.dm_kpts = {Alpha, Beta}
        /\ \A x \in {Alpha, Beta} :
             /\ Len(guess_ret.dm_kpts[x]) = Len(guess_args.kpts)
             /\ \A k \in DOMAIN guess_ret.dm_kpts[x] :
                  /\ guess_ret.dm_kpts[x][k] = guess_ret.dm_kpts[x][1]
                  /\ DOMAIN guess_ret.dm_kpts[x][k].num = Ao
                  /\ cell.dimension = 3 =>
                       guess_ret.dm_kpts[x][k] =
                           [num |-> MatScale(init_guess_by_minao[x],
                                             IF x = Alpha THEN AlphaBias ELSE BetaBias),
                            den |-> <<1, 0>>]

\* C5's case: key 'CHKFILE', a checkpoint without the key, two k-points.
C5_Witness ==
    /\ pc = "done" /\ ChkReadFails
    /\ guess_args.key = "CHKFILE" /\ guess_args.chkfile = "nokey"
    /\ Len(guess_args.kpts) = 2
    /\ guess_ret.status = "returned"
    /\ Len(guess_ret.dm_kpts[Beta]) = 2

\* ------------------------------------------------- claims on canonicalize

\* The projection of output column j on input orbital i.
Overlap(mo, out, i, j) ==
    CSum([r \in 1..2 |-> CMul(CConj(mo[r][i]), out[r][j])])

\* The outcome r of make_rdm1 with every density entry multiplied by n.
TimesDm(r, n) ==
    [status |-> r.status,
     dm |-> [s \in DOMAIN r.dm |-> [k \in DOMAIN r.dm[s] |-> MatScale(r.dm[s][k], n)]]]

\* C4: canonicalize never mixes the occupied and the virtual subspace: at
\* every spin and k-point an output orbital has no component on an input
\* orbital of the other occupation, every orbital index is given a new energy
\* and a new column, and make_rdm1 of the canonical orbitals with the same
\* occupations is the density of the orbitals passed in (coefficients in
\* fifths make it Fifth * Fifth times as large).
C4_CanonKeepsSubspaces ==
    (pc = "done" /\ canon_ret.status = "returned") =>
        /\ \A s \in {Alpha, Beta} : \A k \in 1..Len(canon_args.mo_coeff[s]) :
              LET occ == canon_args.mo_occ[s][k]
              IN  /\ canon_ret.written[s][k] = DOMAIN occ
                  /\ \A i, j \in DOMAIN occ :
                         occ[i] # occ[j] =>
                             Overlap(canon_args.mo_coeff[s][k],
                                     canon_ret.mo_coeff[s][k], i, j) = <<0, 0>>
        /\ make_rdm1(canon_ret.mo_coeff, canon_args.mo_occ)
               = TimesDm(make_rdm1(canon_args.mo_coeff, canon_args.mo_occ), Fifth * Fifth)

\* canonicalize returned; at one k-point two occupied orbitals were rotated
\* into each other, at another the virtual level lies below the occupied one.
C4_Witness ==
    /\ pc = "done" /\ canon_ret.status = "returned"
    /\ \E s \in {Alpha, Beta} : \E k \in 1..Len(canon_args.mo_coeff[s]) :
           /\ canon_args.mo_occ[s][k] = <<1, 1>>
           /\ \E i, j \in Ao :
                  canon_ret.mo_coeff[s][k][i][j][1] \notin {-Fifth, 0, Fifth}
    /\ \E s \in {Alpha, Beta} : \E k \in 1..Len(canon_args.mo_coeff[s]) :
       \E i, j \in Ao :
           /\ canon_args.mo_occ[s][k][i] = 1 /\ canon_args.mo_occ[s][k][j] = 0
           /\ canon_ret.mo_energy[s][k][j] < canon_ret.mo_energy[s][k][i]

====
